---- MODULE Spec2Model ----
(***************************************************************************)
(* Model of the Twitch client: the EventSub WebSocket session              *)
(* (twitchClient.ts), the chat message manager with its auto-post monitor  *)
(* (messageManager.ts) and the token refresh helper                        *)
(* (refreshTokenHelper.ts, index.ts).                                      *)
(*                                                                         *)
(* Every `await` of the source is a point where another callback may run,  *)
(* so an async function is a task with a program counter; the code between *)
(* two awaits is one atomic action.                                        *)
(***************************************************************************)
EXTENDS Integers, Sequences, FiniteSets, TLC

\* ------------------------------------------------------------------ bounds
\* The clock counts in units of the auto-post monitor's interval.
Epoch == 4          \* Date.now() at construction: beyond every threshold
MaxTime == 2        \* the auto-post runs end at Epoch + MaxTime
MaxChatTime == 1    \* the chat runs end at Epoch + MaxChatTime
MaxSockets == 2     \* WebSocket objects created over a session run
MaxFrames == 2      \* frames delivered over a session run
MaxChatFrames == 2  \* chat notifications delivered over a chat run
MaxAutoFrames == 1  \* frames delivered over an auto-post or a credentials run
MaxRefresh == 3     \* maybeRefreshToken invocations over a refresh run
MaxQuietTime == 3   \* the quiet auto-post runs end at Epoch + MaxQuietTime
TickInterval == 1   \* setInterval(..., 10 * 60 * 1000): one clock unit

\* ------------------------------------------------------------- value sets
BotId == "100"
Users == {"100", "200"}
Channels == {"100", "200"}
ReplyTexts == {"a", "b"}
PostTexts == {"p"}
SessionIds == {1, 2}
NoText == ""
InactivityThresholds == {1, 2}
MinTimesBetweenPosts == {1, 2}

VARIABLES
  now,            \* Date.now()
  settings,       \* runtime.getSetting(): the settings loaded at startup
  configResult,   \* validateTwitchConfig: not run yet, passed, or threw
  autoPostEnabled,      \* MessageManager.autoPostEnabled
  rssFeeds,             \* MessageManager.rssFeeds
  inactivityThreshold,  \* MessageManager.inactivityThreshold
  minTimeBetweenPosts,  \* MessageManager.minTimeBetweenPosts
  ws,             \* TwitchClient.ws: 0 is null, else an index into socks
  socks,          \* the WebSocket objects created so far
  sessionId,      \* TwitchClient.sessionId: 0 is null
  startPc,        \* TwitchClient.start(): not called yet, waiting, or how it ended
  uncaught,       \* an exception escaped a WebSocket event listener
  subs,           \* subscribe calls issued, with their outcome
  nFrames,        \* frames delivered so far
  lastFrame,      \* the frame delivered last
  lastActivity,   \* MessageManager.lastActivity
  interestChats,  \* MessageManager.interestChats
  chatTasks,      \* handleIncomingMessage invocations waiting at an await
  returned,       \* how many handleIncomingMessage invocations returned what
  generated,      \* per channel, the reply texts that reached the duplicate check
  lastAutoPostTime,  \* MessageManager.lastAutoPostTime
  tickTasks,      \* checkAutoPost invocations that passed the thresholds
  nextTick,       \* when the auto-post interval fires next
  lastTick,       \* what the last run of checkAutoPost read and decided
  file,           \* the character file: the persisted credentials
  refreshTimer,   \* index.ts registered the refresh interval
  refreshTasks,   \* maybeRefreshToken invocations waiting at an await
  nRefresh,       \* maybeRefreshToken invocations so far
  refreshLog,     \* what maybeRefreshToken logged last
  refreshThrew,   \* a maybeRefreshToken invocation rejected instead of returning
  provider,       \* the token endpoint: pairs issued, refresh token it accepts
  tokenCalls,     \* requests sent to the token endpoint
  sends           \* Helix chat requests issued by sendChatMessage

configVars == <<settings, configResult, autoPostEnabled, rssFeeds, inactivityThreshold,
                minTimeBetweenPosts>>
sessionVars == <<ws, socks, sessionId, startPc, uncaught, subs, nFrames, lastFrame>>
chatVars == <<lastActivity, interestChats, chatTasks, returned, generated>>
autoVars == <<lastAutoPostTime, tickTasks, nextTick, lastTick>>
refreshVars == <<file, refreshTimer, refreshTasks, nRefresh, refreshLog,
                 refreshThrew, provider, tokenCalls>>
vars == <<now, configVars, sessionVars, chatVars, autoVars, refreshVars, sends>>

\* -------------------------------------------------------------- settings
Missing == ""
Truthy(v) == v # Missing

\* twitchEnvSchema without the rule for TWITCH_BOT_USERNAME.
ValidTwitchConfigNoUsername(config) ==
  /\ Truthy(config.TWITCH_BOT_USER_ID)
  /\ config.TWITCH_OAUTH_TOKEN # 0
  /\ Truthy(config.TWITCH_CLIENT_ID)
  /\ Truthy(config.TWITCH_CHANNEL_USER_ID)

\* twitchEnvSchema: the five settings that must be non-empty strings.
ValidTwitchConfig(config) ==
  /\ Truthy(config.TWITCH_BOT_USER_ID)
  /\ Truthy(config.TWITCH_BOT_USERNAME)
  /\ config.TWITCH_OAUTH_TOKEN # 0
  /\ Truthy(config.TWITCH_CLIENT_ID)
  /\ Truthy(config.TWITCH_CHANNEL_USER_ID)

\* ------------------------------------------------------------------ frames
\* The text of a frame, by what JSON.parse and the handler read from it.
\* A chat message has its own message id; a frame delivered again carries the
\* same one.
MessageId(channel, chatter) == <<channel, chatter>>
NoMessageId == <<"", "">>

ChatEvents ==
  {[message_id |-> MessageId(c, u), broadcaster_user_id |-> c,
    chatter_user_id |-> u, text |-> "hi"] : c \in Channels, u \in Users}

NoEvent == [message_id |-> NoMessageId, broadcaster_user_id |-> "",
            chatter_user_id |-> "", text |-> ""]

Frame(parseable, isNull, mtype, hasSession, sid, stype, hasEvent, evt) ==
  [parseable |-> parseable, isNull |-> isNull, message_type |-> mtype,
   hasSession |-> hasSession, session_id |-> sid,
   subscription_type |-> stype, hasEvent |-> hasEvent, event |-> evt]

NoFrame == Frame(FALSE, FALSE, "none", FALSE, 0, "", FALSE, NoEvent)
Garbage == Frame(FALSE, FALSE, "", FALSE, 0, "", FALSE, NoEvent)
JsonNull == Frame(TRUE, TRUE, "", FALSE, 0, "", FALSE, NoEvent)
Welcome(sid) == Frame(TRUE, FALSE, "session_welcome", TRUE, sid, "", FALSE, NoEvent)
WelcomeNoSession == Frame(TRUE, FALSE, "session_welcome", FALSE, 0, "", FALSE, NoEvent)
Keepalive == Frame(TRUE, FALSE, "session_keepalive", FALSE, 0, "", FALSE, NoEvent)
Revocation == Frame(TRUE, FALSE, "revocation", FALSE, 0, "", FALSE, NoEvent)
ChatNotification(e) ==
  Frame(TRUE, FALSE, "notification", FALSE, 0, "channel.chat.message", TRUE, e)
NotificationNoEvent ==
  Frame(TRUE, FALSE, "notification", FALSE, 0, "channel.chat.message", FALSE, NoEvent)
OtherNotification ==
  Frame(TRUE, FALSE, "notification", FALSE, 0, "channel.follow", FALSE, NoEvent)

RawFrames ==
  {Garbage, JsonNull, WelcomeNoSession, Keepalive, Revocation,
   NotificationNoEvent, OtherNotification}
  \cup {Welcome(sid) : sid \in SessionIds}
  \cup {ChatNotification(e) : e \in ChatEvents}

\* JSON.parse(raw): throws on text that is no JSON.
JSONParse(raw) ==
  IF raw.parseable THEN [ok |-> TRUE, data |-> raw] ELSE [ok |-> FALSE, data |-> raw]


\* ------------------------------------------------------------- functions
\* obj[key] = value on a JavaScript object used as a map.
SetKey(obj, key, value) ==
  [k \in DOMAIN obj \cup {key} |-> IF k = key THEN value ELSE obj[k]]

EmptyMap == [k \in {} |-> 0]

\* ------------------------------------------------------- sendChatMessage
SendCredentialsPresent ==
  /\ settings.TWITCH_OAUTH_TOKEN # 0
  /\ Truthy(settings.TWITCH_CLIENT_ID)
  /\ Truthy(settings.TWITCH_BOT_USER_ID)
  /\ Truthy(settings.TWITCH_CHANNEL_USER_ID)

\* The comparison of line 36 answered by "no" whatever the two ids are.
isBroadcasterNever == FALSE

isBroadcaster == settings.TWITCH_BOT_USER_ID = settings.TWITCH_CHANNEL_USER_ID

\* The request sendChatMessage hands to fetch: the query parameters of the url,
\* the bearer token and the body. moderator_id = Missing: the parameter is absent.
\* With it, what the request is for: kind "reply" to the notification
\* message_id in chat state chat, or kind "autopost" of the tick that read the
\* clock at tick; and the time at.
SendRequest(kind, message_id, tick, chat, chatMessage) ==
  [kind |-> kind, message_id |-> message_id, tick |-> tick, chat |-> chat,
   at |-> now,
   broadcaster_id |-> settings.TWITCH_CHANNEL_USER_ID,
   moderator_id |-> IF isBroadcaster THEN Missing ELSE settings.TWITCH_BOT_USER_ID,
   token |-> settings.TWITCH_OAUTH_TOKEN,
   message |-> chatMessage]

\* What the awaited fetch of sendChatMessage can do: answer with a success
\* status, answer with a non-success status, or reject (network error).
SendOutcomes == {"ok", "rejected", "neterr"}

\* sendChatMessage throwing on everything but a success status.
SendThrowsUnlessOk(outcome) == outcome = "ok"

\* sendChatMessage returns normally on every response, res.ok or not; only a
\* rejected fetch makes it throw.
SendReturnsNormally(outcome) == outcome \in {"ok", "rejected"}

\* ---------------------------------------------------------------- session
SessionState ==
  IF ws = 0 THEN "Disconnected"
  ELSE IF socks[ws].state = "connecting" THEN "Connecting"
  ELSE IF socks[ws].state # "open" THEN "NotifyingError"
  ELSE IF ~socks[ws].welcomed THEN "AwaitingWelcome"
  ELSE "Subscribed"

\* start() up to the await of the validate call. The owner calls start() while
\* the client holds no connection.
StartBegin ==
  /\ startPc # "validating"
  /\ ws = 0
  /\ Len(socks) < MaxSockets
  /\ startPc' = IF settings.TWITCH_OAUTH_TOKEN # 0 THEN "validating" ELSE "raised"
  /\ UNCHANGED <<now, configVars, autoVars, refreshVars, ws, socks, sessionId, uncaught, subs, nFrames,
                 lastFrame, chatVars, sends>>

\* validateToken with every answer taken for a valid token.
TokenValidAlways(status) == TRUE

\* validateToken: only status 200 is a valid token.
TokenValid(status) == status = 200

\* start() after the validate call answered: anything but 200 throws, else the
\* WebSocket is created, the four listeners are registered and start() returns.
StartValidated(status) ==
  /\ startPc = "validating"
  /\ startPc' = IF TokenValid(status) THEN "returned" ELSE "raised"
  /\ IF TokenValid(status)
     THEN /\ socks' = Append(socks, [state |-> "connecting", welcomed |-> FALSE])
          /\ ws' = Len(socks) + 1
     ELSE UNCHANGED <<ws, socks>>
  /\ UNCHANGED <<now, configVars, autoVars, refreshVars, sessionId, uncaught, subs, nFrames, lastFrame,
                 chatVars, sends>>

\* ws.on("open"): logs.
SocketOpen(s) ==
  /\ socks[s].state = "connecting"
  /\ socks' = [socks EXCEPT ![s].state = "open"]
  /\ UNCHANGED <<now, configVars, autoVars, refreshVars, ws, sessionId, startPc, uncaught, subs, nFrames,
                 lastFrame, chatVars, sends>>

\* ws.on("error"): logs. The library closes the socket afterwards.
SocketError(s) ==
  /\ socks[s].state \in {"connecting", "open"}
  /\ socks' = [socks EXCEPT ![s].state = "closing"]
  /\ UNCHANGED <<now, configVars, autoVars, refreshVars, ws, sessionId, startPc, uncaught, subs, nFrames,
                 lastFrame, chatVars, sends>>

\* A close listener that opens a new connection.
SocketCloseReconnect(s) ==
  /\ socks[s].state \in {"connecting", "open", "closing"}
  /\ socks' = Append([socks EXCEPT ![s].state = "closed"],
                     [state |-> "connecting", welcomed |-> FALSE])
  /\ ws' = Len(socks) + 1
  /\ UNCHANGED <<now, configVars, autoVars, refreshVars, sessionId, startPc, uncaught, subs, nFrames,
                 lastFrame, chatVars, sends>>

\* ws.on("close"): this.ws = null, whichever socket closed.
SocketClose(s) ==
  /\ socks[s].state \in {"connecting", "open", "closing"}
  /\ socks' = [socks EXCEPT ![s].state = "closed"]
  /\ ws' = 0
  /\ UNCHANGED <<now, configVars, autoVars, refreshVars, sessionId, startPc, uncaught, subs, nFrames,
                 lastFrame, chatVars, sends>>

\* stop() without its test of this.ws: closing the null handle throws.
StopUnguarded ==
  /\ IF ws # 0
     THEN /\ socks' = [socks EXCEPT ![ws].state =
                         IF @ = "closed" THEN "closed" ELSE "closing"]
          /\ ws' = 0
          /\ UNCHANGED uncaught
     ELSE /\ uncaught' = TRUE
          /\ UNCHANGED <<ws, socks>>
  /\ UNCHANGED <<now, configVars, autoVars, refreshVars, sessionId, startPc, subs, nFrames,
                 lastFrame, chatVars, sends>>

\* stop(): a no-op without a socket.
Stop ==
  /\ IF ws # 0
     THEN /\ socks' = [socks EXCEPT ![ws].state =
                         IF @ = "closed" THEN "closed" ELSE "closing"]
          /\ ws' = 0
     ELSE UNCHANGED <<ws, socks>>
  /\ UNCHANGED <<now, configVars, autoVars, refreshVars, sessionId, startPc, uncaught, subs, nFrames,
                 lastFrame, chatVars, sends>>

\* ----------------------------------------- subscribeToChannelChatMessage
\* The subscribe call made before the welcome handler stored the identifier of
\* its frame.
SubscribeCallStale(sid) ==
  IF sessionId = 0 THEN subs
  ELSE IF ~SendCredentialsPresent THEN subs
  ELSE Append(subs, [session_id |-> sessionId,
                     token |-> settings.TWITCH_OAUTH_TOKEN,
                     broadcaster_user_id |-> settings.TWITCH_CHANNEL_USER_ID,
                     user_id |-> settings.TWITCH_BOT_USER_ID,
                     status |-> "pending"])

\* The synchronous part, up to the fetch: the subscribe calls after it ran with
\* this.sessionId = sid.
SubscribeCall(sid) ==
  IF sid = 0 THEN subs
  ELSE IF ~SendCredentialsPresent THEN subs
  ELSE Append(subs, [session_id |-> sid,
                     token |-> settings.TWITCH_OAUTH_TOKEN,
                     broadcaster_user_id |-> settings.TWITCH_CHANNEL_USER_ID,
                     user_id |-> settings.TWITCH_BOT_USER_ID,
                     status |-> "pending"])

\* Only the status is examined: 202 is a success whatever the body holds (its id
\* is only logged), anything else throws.
SubscribeAccepted(status, hasId) == status = 202

SubscribeResponse(i, status, hasId) ==
  /\ i \in 1..Len(subs)
  /\ subs[i].status = "pending"
  /\ subs' = [subs EXCEPT ![i].status =
                IF SubscribeAccepted(status, hasId) THEN "subscribed" ELSE "failed"]
  /\ UNCHANGED <<now, configVars, autoVars, refreshVars, ws, socks, sessionId, startPc, uncaught, nFrames,
                 lastFrame, chatVars, sends>>


\* ------------------------------------------------- handleIncomingMessage
\* The check of step 1 left out.
IsOwnMessageNever(senderId) == FALSE

\* Step 1: a message whose sender is the bot itself is ignored.
IsOwnMessage(senderId) ==
  Truthy(settings.TWITCH_BOT_USER_ID) /\ senderId = settings.TWITCH_BOT_USER_ID

NewChatState == [lastMessageSent |-> 0, messages |-> <<>>, lastResponse |-> NoText]

\* An invocation that is waiting at one of its awaits; id tells two invocations
\* for equal frames apart.
ChatTask(id, e) ==
  [id |-> id, channel |-> e.broadcaster_user_id, sender |-> e.chatter_user_id,
   message_id |-> e.message_id, text |-> e.text, pc |-> "ensure"]

\* An invocation returned: null or the response content.
Return(ret) == [returned EXCEPT ![ret] = @ + 1]

\* handleIncomingMessage from its call to its first await (steps 1 to 3).
HandleIncomingBegin(e) ==
  IF IsOwnMessage(e.chatter_user_id)
  THEN /\ returned' = Return("null")
       /\ UNCHANGED <<lastActivity, interestChats, chatTasks>>
  ELSE /\ lastActivity' = SetKey(lastActivity, e.broadcaster_user_id, now)
       /\ interestChats' =
            IF e.broadcaster_user_id \in DOMAIN interestChats THEN interestChats
            ELSE SetKey(interestChats, e.broadcaster_user_id, NewChatState)
       /\ chatTasks' = chatTasks \cup {ChatTask(nFrames + 1, e)}
       /\ UNCHANGED returned

ChatStep(t, pc) == (chatTasks \ {t}) \cup {[t EXCEPT !.pc = pc]}

\* Step 4: ensureConnection and createMemory answered (or threw: caught, null),
\* then the message is pushed on the channel's window.
ChatEnsured(t, ok) ==
  /\ t \in chatTasks
  /\ t.pc = "ensure"
  /\ IF ok
     THEN /\ interestChats' =
               [interestChats EXCEPT ![t.channel] =
                  [@ EXCEPT !.messages =
                       Append(@, [userId |-> t.sender, text |-> t.text]),
                     !.lastMessageSent = now]]
          /\ chatTasks' = ChatStep(t, "generate")
          /\ UNCHANGED returned
     ELSE /\ chatTasks' = chatTasks \ {t}
          /\ returned' = Return("null")
          /\ UNCHANGED interestChats
  /\ UNCHANGED <<now, configVars, autoVars, refreshVars, sessionVars, lastActivity, generated, sends>>

\* The check of step 7 left out.
IsDuplicateNever(chatState, text) == FALSE

\* Step 7: the generated text equals the channel's last response.
IsDuplicate(chatState, text) == chatState.lastResponse = text

\* Steps 5 to 8: composeState and generateMessageResponse answered with out
\* ("throw": one of them threw); then the duplicate check, the update of
\* lastResponse, and sendChatMessage up to its fetch.
ChatGenerated(t, out) ==
  /\ t \in chatTasks
  /\ t.pc = "generate"
  /\ IF out = "throw" \/ out = NoText
     THEN /\ chatTasks' = chatTasks \ {t}
          /\ returned' = Return("null")
          /\ UNCHANGED <<interestChats, generated, sends>>
     ELSE /\ generated' = [generated EXCEPT ![t.channel] = Append(@, out)]
          /\ IF IsDuplicate(interestChats[t.channel], out)
             THEN /\ chatTasks' = chatTasks \ {t}
                  /\ returned' = Return("null")
                  /\ UNCHANGED <<interestChats, sends>>
             ELSE /\ interestChats' =
                       [interestChats EXCEPT ![t.channel].lastResponse = out]
                  /\ IF SendCredentialsPresent
                     THEN /\ sends' = Append(sends,
                                 SendRequest("reply", t.message_id, 0, t.channel, out))
                          /\ chatTasks' = ChatStep(t, "sending")
                          /\ UNCHANGED returned
                     ELSE /\ chatTasks' = chatTasks \ {t}
                          /\ returned' = Return("null")
                          /\ UNCHANGED sends
  /\ UNCHANGED <<now, configVars, autoVars, refreshVars, sessionVars, lastActivity>>

\* Step 8, after the fetch: sendChatMessage returned or threw.
ChatSent(t, outcome) ==
  /\ t \in chatTasks
  /\ t.pc = "sending"
  /\ IF SendReturnsNormally(outcome)
     THEN chatTasks' = ChatStep(t, "persist") /\ UNCHANGED returned
     ELSE chatTasks' = chatTasks \ {t} /\ returned' = Return("null")
  /\ UNCHANGED <<now, configVars, autoVars, refreshVars, sessionVars, lastActivity, interestChats,
                 generated, sends>>

\* Step 9: createMemory of the response answered or threw.
ChatPersisted(t, ok) ==
  /\ t \in chatTasks
  /\ t.pc = "persist"
  /\ chatTasks' = chatTasks \ {t}
  /\ returned' = Return(IF ok THEN "content" ELSE "null")
  /\ UNCHANGED <<now, configVars, autoVars, refreshVars, sessionVars, lastActivity, interestChats,
                 generated, sends>>

\* ---------------------------------------------------- handleNotification
\* Runs synchronously up to the first await of handleIncomingMessage. A payload
\* without an event throws inside the async function: a rejected promise, which
\* the caller's catch logs.
HandleNotification(data) ==
  IF data.subscription_type = "channel.chat.message" /\ data.hasEvent
  THEN HandleIncomingBegin(data.event)
  ELSE UNCHANGED <<lastActivity, interestChats, chatTasks, returned>>

\* The switch with every frame that is no notification handled as a welcome:
\* keepalive and unknown kinds subscribe again with the held session id.
DispatchResubscribing(s, data) ==
  IF data.isNull
  THEN /\ uncaught' = TRUE
       /\ UNCHANGED <<sessionId, subs, socks, lastActivity, interestChats, chatTasks,
                       returned>>
  ELSE IF data.message_type = "session_welcome"
  THEN IF data.hasSession
       THEN /\ sessionId' = data.session_id
            /\ subs' = SubscribeCall(data.session_id)
            /\ socks' = [socks EXCEPT ![s].welcomed = TRUE]
            /\ UNCHANGED <<uncaught, lastActivity, interestChats, chatTasks, returned>>
       ELSE /\ uncaught' = TRUE
            /\ UNCHANGED <<sessionId, subs, socks, lastActivity, interestChats,
                           chatTasks, returned>>
  ELSE IF data.message_type = "notification"
  THEN /\ HandleNotification(data)
       /\ UNCHANGED <<uncaught, sessionId, subs, socks>>
  ELSE /\ subs' = SubscribeCall(sessionId)
       /\ UNCHANGED <<uncaught, sessionId, socks, lastActivity, interestChats,
                      chatTasks, returned>>

\* ------------------------------------------------ handleWebSocketMessage
\* The switch on metadata.message_type, on the parsed frame. Reading .metadata
\* of null, or .session.id of a payload without session, throws a TypeError that
\* nothing catches.
Dispatch(s, data) ==
  IF data.isNull
  THEN /\ uncaught' = TRUE
       /\ UNCHANGED <<sessionId, subs, socks, lastActivity, interestChats, chatTasks,
                       returned>>
  ELSE IF data.message_type = "session_welcome"
  THEN IF data.hasSession
       THEN /\ sessionId' = data.session_id
            /\ subs' = SubscribeCall(data.session_id)
            /\ socks' = [socks EXCEPT ![s].welcomed = TRUE]
            /\ UNCHANGED <<uncaught, lastActivity, interestChats, chatTasks, returned>>
       ELSE /\ uncaught' = TRUE
            /\ UNCHANGED <<sessionId, subs, socks, lastActivity, interestChats,
                           chatTasks, returned>>
  ELSE IF data.message_type = "notification"
  THEN /\ HandleNotification(data)
       /\ UNCHANGED <<uncaught, sessionId, subs, socks>>
  ELSE UNCHANGED <<uncaught, sessionId, subs, socks, lastActivity, interestChats,
                   chatTasks, returned>>

\* The catch of the parse error without its return: the switch then reads
\* .metadata of the undefined data.
HandleWebSocketMessageNoReturn(s, raw) ==
  IF JSONParse(raw).ok THEN Dispatch(s, JSONParse(raw).data) ELSE Dispatch(s, JsonNull)

\* JSON.parse in a try whose catch logs and returns, then the switch.
HandleWebSocketMessage(s, raw) ==
  IF JSONParse(raw).ok
  THEN Dispatch(s, JSONParse(raw).data)
  ELSE UNCHANGED <<uncaught, sessionId, subs, socks, lastActivity, interestChats,
                   chatTasks, returned>>

\* ws.on("message") of socket s.
OnMessage(s, raw) ==
  /\ socks[s].state = "open"
  /\ nFrames' = nFrames + 1
  /\ lastFrame' = raw
  /\ HandleWebSocketMessage(s, raw)
  /\ UNCHANGED <<now, configVars, autoVars, refreshVars, ws, startPc, generated, sends>>


\* A channel without record counted as active at construction.
LastActivityOfConstruction(channelUserId) ==
  IF channelUserId \in DOMAIN lastActivity THEN lastActivity[channelUserId] ELSE Epoch

\* ------------------------------------------------------------ checkAutoPost
\* this.lastActivity[channelUserId] || 0
LastActivityOf(channelUserId) ==
  IF channelUserId \in DOMAIN lastActivity THEN lastActivity[channelUserId] ELSE 0

\* The thresholds with >= for >.
AutoPostDueInclusive(t, lastActivityTime, lastPostTime) ==
  /\ t - lastActivityTime >= inactivityThreshold
  /\ t - lastPostTime >= minTimeBetweenPosts

\* The thresholds: both strict.
AutoPostDue(t, lastActivityTime, lastPostTime) ==
  /\ t - lastActivityTime > inactivityThreshold
  /\ t - lastPostTime > minTimeBetweenPosts

\* The early returns of checkAutoPost without the check of the sources.
AutoPostConfiguredNoSources == autoPostEnabled

AutoPostConfigured == autoPostEnabled /\ Len(rssFeeds) > 0

\* checkAutoPost from its call to its first await: the early returns, and the
\* thresholds on the clock read at this point. A task is created when it goes on
\* to ask the aggregator for an item; it is known by the clock it read, and is
\* dropped when checkAutoPost returns or throws.
CheckAutoPostBegin ==
  /\ IF /\ AutoPostConfigured
        /\ Truthy(settings.TWITCH_CHANNEL_USER_ID)
        /\ AutoPostDue(now, LastActivityOf(settings.TWITCH_CHANNEL_USER_ID),
                       lastAutoPostTime)
     THEN tickTasks' = tickTasks \cup {[now |-> now, pc |-> "feed", res |-> "none"]}
     ELSE UNCHANGED tickTasks
  /\ lastTick' = [at |-> now,
                  timeSinceLastActivity |->
                    now - LastActivityOf(settings.TWITCH_CHANNEL_USER_ID),
                  timeSinceLastAutoPost |-> now - lastAutoPostTime]

\* The interval registered by startAutoPostMonitor (only when auto-post is
\* enabled) fires.
TimerDue == autoPostEnabled /\ nextTick <= now

\* startAutoPostMonitor with setTimeout in place of setInterval: one tick only.
AutoPostTimerOnce ==
  /\ TimerDue
  /\ nextTick' = nextTick + Epoch + MaxTime + MaxQuietTime
  /\ CheckAutoPostBegin
  /\ UNCHANGED <<now, configVars, sessionVars, chatVars, refreshVars, lastAutoPostTime,
                 sends>>

AutoPostTimer ==
  /\ TimerDue
  /\ nextTick' = nextTick + TickInterval
  /\ CheckAutoPostBegin
  /\ UNCHANGED <<now, configVars, sessionVars, chatVars, refreshVars, lastAutoPostTime,
                 sends>>

TickStep(t, pc) == (tickTasks \ {t}) \cup {[t EXCEPT !.pc = pc]}

\* fetchRandomFeedItem answered: no item ends the tick; with an item the tick
\* goes on to composeState (a throw there ends it, like a missing item).
TickFeed(t, item) ==
  /\ t \in tickTasks
  /\ t.pc = "feed"
  /\ tickTasks' = IF item THEN TickStep(t, "generate") ELSE tickTasks \ {t}
  /\ UNCHANGED <<now, configVars, sessionVars, chatVars, refreshVars,
                 lastAutoPostTime, nextTick, lastTick, sends>>

\* checkAutoPost without the check of the generated text: whatever did not
\* throw is sent.
TickGeneratedUnchecked(t, out) ==
  /\ t \in tickTasks
  /\ t.pc = "generate"
  /\ IF out = "throw" \/ ~SendCredentialsPresent
     THEN /\ tickTasks' = tickTasks \ {t}
          /\ UNCHANGED sends
     ELSE /\ sends' = Append(sends, SendRequest("autopost", NoMessageId, t.now, "", out))
          /\ tickTasks' = (tickTasks \ {t}) \cup {[t EXCEPT !.pc = "sending"]}
  /\ UNCHANGED <<now, configVars, sessionVars, chatVars, refreshVars,
                 lastAutoPostTime, nextTick, lastTick>>

\* composeState and generateMessageResponse answered with out ("throw": one of
\* them threw); with a text, sendChatMessage runs up to its fetch.
TickGenerated(t, out) ==
  /\ t \in tickTasks
  /\ t.pc = "generate"
  /\ IF out = "throw" \/ out = NoText \/ ~SendCredentialsPresent
     THEN /\ tickTasks' = tickTasks \ {t}
          /\ UNCHANGED sends
     ELSE /\ sends' = Append(sends, SendRequest("autopost", NoMessageId, t.now, "", out))
          /\ tickTasks' = TickStep(t, "sending")
  /\ UNCHANGED <<now, configVars, sessionVars, chatVars, refreshVars,
                 lastAutoPostTime, nextTick, lastTick>>

\* The fetch of sendChatMessage answered: the tick goes on whenever
\* sendChatMessage returns, and ends when it throws.
TickSent(t, outcome) ==
  /\ t \in tickTasks
  /\ t.pc = "sending"
  /\ tickTasks' = IF SendReturnsNormally(outcome)
                  THEN (tickTasks \ {t})
                         \cup {[t EXCEPT !.pc = "persist", !.res = outcome]}
                  ELSE tickTasks \ {t}
  /\ UNCHANGED <<now, configVars, sessionVars, chatVars, refreshVars,
                 lastAutoPostTime, nextTick, lastTick, sends>>

\* createMemory, updateRecentMessageState and evaluate answered: only when none
\* of them threw is lastAutoPostTime set, to the clock read at the tick's start.
TickPersisted(t, ok) ==
  /\ t \in tickTasks
  /\ t.pc = "persist"
  /\ tickTasks' = tickTasks \ {t}
  /\ lastAutoPostTime' = IF ok THEN t.now ELSE lastAutoPostTime
  /\ UNCHANGED <<now, configVars, sessionVars, chatVars, refreshVars, nextTick, lastTick,
                 sends>>

\* ------------------------------------------------------ maybeRefreshToken
\* Step 2 without the check of the client secret.
RefreshFieldsPresentNoSecret(secrets) ==
  /\ Truthy(secrets.TWITCH_CLIENT_ID)
  /\ secrets.TWITCH_REFRESH_TOKEN # 0

\* Step 2: the three fields the refresh needs.
RefreshFieldsPresent(secrets) ==
  /\ Truthy(secrets.TWITCH_CLIENT_ID)
  /\ Truthy(secrets.TWITCH_CLIENT_SECRET)
  /\ secrets.TWITCH_REFRESH_TOKEN # 0

\* The catch block with the error thrown on instead of logged.
RefreshRethrown ==
  /\ refreshLog' = "maybeRefreshToken error"
  /\ refreshThrew' = TRUE

\* The catch block around the whole body: logs, and the invocation returns.
RefreshCaught ==
  /\ refreshLog' = "maybeRefreshToken error"
  /\ UNCHANGED refreshThrew

\* A line logged by the body, which goes on or returns.
RefreshLogged(line) ==
  /\ refreshLog' = line
  /\ UNCHANGED refreshThrew

\* maybeRefreshToken is called and waits for the file to be read.
MaybeRefreshToken ==
  /\ nRefresh' = nRefresh + 1
  /\ refreshTasks' = refreshTasks \cup {[id |-> nRefresh + 1, pc |-> "load", config |-> file]}
  /\ UNCHANGED <<file, refreshTimer, refreshLog, refreshThrew, provider, tokenCalls>>

\* index.ts, step 1: validateTwitchConfig parses the settings with the schema;
\* a ZodError ends start().
ValidateTwitchConfig ==
  /\ configResult = "pending"
  /\ configResult' = IF ValidTwitchConfig(settings) THEN "valid" ELSE "invalid"
  /\ UNCHANGED <<now, settings, autoPostEnabled, rssFeeds, inactivityThreshold,
                 minTimeBetweenPosts, sessionVars, chatVars, autoVars,
                 refreshVars, sends>>

\* index.ts, step 2: the refresh at startup, which start awaits.
RefreshAtStartup ==
  /\ configResult = "valid"
  /\ ~refreshTimer
  /\ nRefresh = 0
  /\ MaybeRefreshToken
  /\ UNCHANGED <<now, configVars, sessionVars, chatVars, autoVars, sends>>

\* index.ts, step 3: once the refresh at startup returned, the interval is
\* registered.
RegisterRefreshTimer ==
  /\ ~refreshTimer
  /\ nRefresh > 0
  /\ refreshTasks = {}
  /\ refreshTimer' = TRUE
  /\ UNCHANGED <<now, configVars, sessionVars, chatVars, autoVars, sends, file,
                 refreshTasks, nRefresh, refreshLog, refreshThrew, provider,
                 tokenCalls>>

\* index.ts, step 4: with the interval registered, the client is constructed
\* and its start() is called.
StartClient ==
  /\ refreshTimer
  /\ startPc = "idle"
  /\ StartBegin

\* The interval fires: a refresh starts, whether or not an earlier one returned.
RefreshTimerFires ==
  /\ refreshTimer
  /\ MaybeRefreshToken
  /\ UNCHANGED <<now, configVars, sessionVars, chatVars, autoVars, sends>>

\* Steps 1 to 3: the file was read (ok) or reading or parsing it threw; then
\* the checks on what was read, and the request to the token endpoint.
RefreshLoaded(t, ok) ==
  /\ t \in refreshTasks
  /\ t.pc = "load"
  /\ IF ~ok \/ ~file.readable
     THEN /\ RefreshCaught
          /\ refreshTasks' = refreshTasks \ {t}
          /\ UNCHANGED tokenCalls
     ELSE IF ~file.hasSecrets
     THEN /\ RefreshLogged("No settings.secrets")
          /\ refreshTasks' = refreshTasks \ {t}
          /\ UNCHANGED tokenCalls
     ELSE IF ~RefreshFieldsPresent(file)
     THEN /\ RefreshLogged("Missing clientId/clientSecret/refreshToken")
          /\ refreshTasks' = refreshTasks \ {t}
          /\ UNCHANGED tokenCalls
     ELSE /\ RefreshLogged("Attempting token refresh")
          /\ tokenCalls' = Append(tokenCalls,
                                  [client_id |-> file.TWITCH_CLIENT_ID,
                                   client_secret |-> file.TWITCH_CLIENT_SECRET,
                                   refresh_token |-> file.TWITCH_REFRESH_TOKEN,
                                   by |-> t.id])
          /\ refreshTasks' = (refreshTasks \ {t})
                               \cup {[t EXCEPT !.pc = "fetch", !.config = file]}
  /\ UNCHANGED <<now, configVars, sessionVars, chatVars, autoVars, sends, file,
                 refreshTimer, nRefresh, provider>>

\* What the token endpoint can answer: a rejected fetch, a non-2xx status, a 2xx
\* body without the tokens, or a new pair of tokens. It issues a pair only for
\* the refresh token it accepts, which the exchange uses up.
RefreshAnswers == {"neterr", "status", "nofields", "tokens"}

\* Step 5 with the access token alone.
WithNewAccessToken(secrets, access_token, refresh_token) ==
  [secrets EXCEPT !.TWITCH_OAUTH_TOKEN = access_token]

\* Step 5: both tokens of the response are set.
WithNewTokens(secrets, access_token, refresh_token) ==
  [secrets EXCEPT !.TWITCH_OAUTH_TOKEN = access_token,
                  !.TWITCH_REFRESH_TOKEN = refresh_token]

\* Steps 3 to 5 without the returns on a non-2xx status and on a body without
\* tokens: the configuration read at step 1 is written back all the same.
RefreshAnsweredSavesAlways(t, answer) ==
  /\ t \in refreshTasks
  /\ t.pc = "fetch"
  /\ answer = "tokens" => t.config.TWITCH_REFRESH_TOKEN = provider.accepts
  /\ IF answer = "tokens"
     THEN /\ provider' = [issued |-> provider.issued + 1,
                          accepts |-> provider.issued + 1]
          /\ RefreshLogged("Refresh successful")
          /\ refreshTasks' = (refreshTasks \ {t}) \cup
               {[t EXCEPT !.pc = "save",
                          !.config = WithNewTokens(@, provider.issued + 1,
                                                   provider.issued + 1)]}
     ELSE IF answer = "neterr"
     THEN /\ RefreshCaught
          /\ refreshTasks' = refreshTasks \ {t}
          /\ UNCHANGED provider
     ELSE /\ RefreshLogged("Failed to refresh token")
          /\ refreshTasks' = (refreshTasks \ {t}) \cup {[t EXCEPT !.pc = "save"]}
          /\ UNCHANGED provider
  /\ UNCHANGED <<now, configVars, sessionVars, chatVars, autoVars, sends, file,
                 refreshTimer, nRefresh, tokenCalls>>

\* Steps 3 to 5: the answer arrived; with new tokens both are set in the
\* configuration read at step 1, which is written back as a whole.
RefreshAnswered(t, answer) ==
  /\ t \in refreshTasks
  /\ t.pc = "fetch"
  /\ answer = "tokens" => t.config.TWITCH_REFRESH_TOKEN = provider.accepts
  /\ IF answer = "tokens"
     THEN /\ provider' = [issued |-> provider.issued + 1,
                          accepts |-> provider.issued + 1]
          /\ RefreshLogged("Refresh successful")
          /\ refreshTasks' = (refreshTasks \ {t}) \cup
               {[t EXCEPT !.pc = "save",
                          !.config = WithNewTokens(@, provider.issued + 1,
                                                   provider.issued + 1)]}
     ELSE /\ CASE answer = "neterr" -> RefreshCaught
                 [] answer = "status" -> RefreshLogged("Failed to refresh token")
                 [] OTHER -> RefreshLogged("Did not receive valid tokens")
          /\ refreshTasks' = refreshTasks \ {t}
          /\ UNCHANGED provider
  /\ UNCHANGED <<now, configVars, sessionVars, chatVars, autoVars, sends, file,
                 refreshTimer, nRefresh, tokenCalls>>

\* saveCharacterConfig: the file is rewritten with the task's configuration, or
\* writing threw.
RefreshSaved(t, ok) ==
  /\ t \in refreshTasks
  /\ t.pc = "save"
  /\ file' = IF ok THEN t.config ELSE file
  /\ IF ok THEN RefreshLogged("Twitch tokens updated") ELSE RefreshCaught
  /\ refreshTasks' = refreshTasks \ {t}
  /\ UNCHANGED <<now, configVars, sessionVars, chatVars, autoVars, sends,
                 refreshTimer, nRefresh, provider, tokenCalls>>

\* ------------------------------------------------------------------ clock
\* Time passes, but not past a timer that is due.
Advance ==
  /\ ~TimerDue
  /\ now' = now + 1
  /\ UNCHANGED <<configVars, sessionVars, chatVars, autoVars, refreshVars, sends>>

\* ------------------------------------------------------------------- init
\* The state after index.ts validated the settings and constructed the
\* TwitchClient with its MessageManager (initAutoPostConfig,
\* startAutoPostMonitor).
InitConfig ==
  /\ settings \in [TWITCH_OAUTH_TOKEN : {1}, TWITCH_CLIENT_ID : {"cid"},
                   TWITCH_BOT_USER_ID : {BotId}, TWITCH_BOT_USERNAME : {"bot"},
                   TWITCH_CHANNEL_USER_ID : Channels]
  /\ configResult = "valid"
  /\ autoPostEnabled \in BOOLEAN
  /\ rssFeeds \in {<<>>, <<"feed">>}
  /\ inactivityThreshold \in InactivityThresholds
  /\ minTimeBetweenPosts \in MinTimesBetweenPosts

\* The character file as startup finds it.
InitFile ==
  /\ file \in [readable : {TRUE}, hasSecrets : BOOLEAN,
                TWITCH_CLIENT_ID : {"cid", Missing},
                TWITCH_CLIENT_SECRET : {"secret", Missing},
                TWITCH_REFRESH_TOKEN : {0, 1},
                TWITCH_OAUTH_TOKEN : {1}]
  /\ provider = [issued |-> 1, accepts |-> 1]
  /\ refreshTimer = FALSE
  /\ refreshTasks = {}
  /\ nRefresh = 0
  /\ refreshLog = ""
  /\ refreshThrew = FALSE
  /\ tokenCalls = <<>>

\* A character file that holds every field.
FileComplete ==
  /\ file.hasSecrets
  /\ RefreshFieldsPresent(file)

InitManager ==
  /\ now = Epoch
  /\ startPc = "idle"
  /\ uncaught = FALSE
  /\ nFrames = 0
  /\ lastActivity = EmptyMap
  /\ interestChats = EmptyMap
  /\ chatTasks = {}
  /\ returned = [null |-> 0, content |-> 0]
  /\ generated = [c \in Channels |-> <<>>]
  /\ lastAutoPostTime = 0
  /\ tickTasks = {}
  /\ nextTick = Epoch + TickInterval
  /\ lastTick = [at |-> 0, timeSinceLastActivity |-> 0, timeSinceLastAutoPost |-> 0]
  /\ lastFrame = NoFrame
  /\ sends = <<>>

NotStarted ==
  /\ ws = 0
  /\ socks = <<>>
  /\ sessionId = 0
  /\ subs = <<>>

Init == InitConfig /\ InitFile /\ InitManager /\ NotStarted

\* Auto-post off, the default configuration: no interval is registered and the
\* thresholds are never read.
AutoPostOff ==
  /\ ~autoPostEnabled
  /\ rssFeeds = <<>>
  /\ inactivityThreshold = 1
  /\ minTimeBetweenPosts = 1

\* A session that completed its handshake: the socket is open, the welcome
\* frame arrived and the subscription was accepted.
Subscribed ==
  /\ ws = 1
  /\ socks = <<[state |-> "open", welcomed |-> TRUE]>>
  /\ sessionId = 1
  /\ subs = <<[session_id |-> 1, token |-> settings.TWITCH_OAUTH_TOKEN,
               broadcaster_user_id |-> settings.TWITCH_CHANNEL_USER_ID,
               user_id |-> settings.TWITCH_BOT_USER_ID, status |-> "subscribed"]>>

\* ------------------------------------------------------ the session layer
\* start, stop, the socket's events and every kind of frame; the replies to
\* chat messages stay pending.
InitSession == Init /\ AutoPostOff /\ FileComplete

SessionNext ==
  \/ StartBegin
  \/ \E status \in {200, 401} : StartValidated(status)
  \/ \E s \in 1..Len(socks) : SocketOpen(s)
  \/ \E s \in 1..Len(socks) : SocketError(s)
  \/ \E s \in 1..Len(socks) : SocketClose(s)
  \/ Stop
  \/ \E i \in 1..Len(subs), status \in {202, 400}, hasId \in BOOLEAN :
       SubscribeResponse(i, status, hasId)
  \/ \E s \in 1..Len(socks), raw \in RawFrames :
       nFrames < MaxFrames /\ OnMessage(s, raw)

SpecSession == InitSession /\ [][SessionNext]_vars

\* ------------------------------------------------- the chat message path
\* Chat notifications on a subscribed session, and handleIncomingMessage
\* through all its awaits. The subscription names one broadcaster, so the
\* notifications are of the configured channel.
InitChat ==
  InitConfig /\ AutoPostOff /\ InitFile /\ FileComplete /\ InitManager /\ Subscribed

ChatNext ==
  \/ \E e \in ChatEvents :
       /\ nFrames < MaxChatFrames
       /\ e.broadcaster_user_id = settings.TWITCH_CHANNEL_USER_ID
       /\ OnMessage(1, ChatNotification(e))
  \/ \E t \in chatTasks, ok \in BOOLEAN : ChatEnsured(t, ok)
  \/ \E t \in chatTasks, out \in ReplyTexts \cup {NoText, "throw"} :
       ChatGenerated(t, out)
  \/ \E t \in chatTasks, outcome \in SendOutcomes : ChatSent(t, outcome)
  \/ \E t \in chatTasks, ok \in BOOLEAN : ChatPersisted(t, ok)
  \/ now < Epoch + MaxChatTime /\ Advance

SpecChat == InitChat /\ [][ChatNext]_vars

\* -------------------------------------------------- the auto-post monitor
\* The interval, checkAutoPost through all its awaits, and chat notifications
\* recording activity. What handleIncomingMessage does after its first await
\* touches nothing checkAutoPost reads, and stays pending here.
InitAutoPost ==
  /\ InitConfig
  /\ settings.TWITCH_CHANNEL_USER_ID = "200"
  /\ InitFile
  /\ FileComplete
  /\ InitManager
  /\ Subscribed

AutoPostNext ==
  \/ AutoPostTimer
  \/ \E t \in tickTasks, item \in BOOLEAN : TickFeed(t, item)
  \/ \E t \in tickTasks, out \in PostTexts \cup {NoText, "throw"} :
       TickGenerated(t, out)
  \/ \E t \in tickTasks, outcome \in SendOutcomes : TickSent(t, outcome)
  \/ \E t \in tickTasks, ok \in BOOLEAN : TickPersisted(t, ok)
  \/ \E e \in ChatEvents :
       /\ nFrames < MaxAutoFrames
       /\ e.chatter_user_id # BotId
       /\ OnMessage(1, ChatNotification(e))
  \/ now < Epoch + MaxTime /\ Advance

SpecAutoPost == InitAutoPost /\ [][AutoPostNext]_vars

\* ------------------------------------------------- the quiet auto-post
\* The monitor on a channel where nobody chats: auto-post is enabled with one
\* feed, and the aggregator, the generator and the send may fail for a while.
\* Over a bounded clock "eventually succeed" reads: a call of a tick may fail
\* only while another tick, more than minTimeBetweenPosts later, is still to
\* come.
InitQuiet ==
  /\ InitAutoPost
  /\ autoPostEnabled
  /\ rssFeeds = <<"feed">>
  /\ inactivityThreshold = 1
  /\ minTimeBetweenPosts = 1

MayFail(t) == t.now + minTimeBetweenPosts < Epoch + MaxQuietTime

QuietFeed == \E t \in tickTasks, item \in BOOLEAN :
  /\ item \/ MayFail(t)
  /\ TickFeed(t, item)

QuietGenerated == \E t \in tickTasks, out \in PostTexts \cup {NoText, "throw"} :
  /\ out \in PostTexts \/ MayFail(t)
  /\ TickGenerated(t, out)

QuietSent == \E t \in tickTasks, outcome \in SendOutcomes :
  /\ outcome = "ok" \/ MayFail(t)
  /\ TickSent(t, outcome)

QuietPersisted == \E t \in tickTasks, ok \in BOOLEAN : TickPersisted(t, ok)

QuietAdvance == now < Epoch + MaxQuietTime /\ Advance

QuietNext ==
  \/ AutoPostTimer
  \/ QuietFeed
  \/ QuietGenerated
  \/ QuietSent
  \/ QuietPersisted
  \/ QuietAdvance

\* The interval keeps firing, time passes, and every awaited call settles.
SpecQuiet ==
  /\ InitQuiet
  /\ [][QuietNext]_vars
  /\ WF_vars(AutoPostTimer)
  /\ WF_vars(QuietFeed)
  /\ WF_vars(QuietGenerated)
  /\ WF_vars(QuietSent)
  /\ WF_vars(QuietPersisted)
  /\ WF_vars(QuietAdvance)

\* ------------------------------------------------------ the token refresh
\* index.ts from its refresh at startup on: the refresh calls, overlapping or
\* not, against the file and the token endpoint.
InitRefresh == Init /\ AutoPostOff /\ settings.TWITCH_CHANNEL_USER_ID = "200"

RefreshNext ==
  \/ RefreshAtStartup
  \/ RegisterRefreshTimer
  \/ nRefresh < MaxRefresh /\ RefreshTimerFires
  \/ \E t \in refreshTasks, ok \in BOOLEAN : RefreshLoaded(t, ok)
  \/ \E t \in refreshTasks, answer \in RefreshAnswers : RefreshAnswered(t, answer)
  \/ \E t \in refreshTasks, ok \in BOOLEAN : RefreshSaved(t, ok)

SpecRefresh == InitRefresh /\ [][RefreshNext]_vars

\* ------------------------------------------------------------ the startup
\* index.ts from its first line: the settings as the runtime holds them, any of
\* the required ones possibly missing.
SettingsAsLoaded ==
  [TWITCH_OAUTH_TOKEN : {0, 1}, TWITCH_CLIENT_ID : {"cid", Missing},
   TWITCH_BOT_USER_ID : {BotId, Missing}, TWITCH_BOT_USERNAME : {"bot", Missing},
   TWITCH_CHANNEL_USER_ID : {"200", Missing}]

InitStartup ==
  /\ settings \in SettingsAsLoaded
  /\ configResult = "pending"
  /\ autoPostEnabled \in BOOLEAN
  /\ rssFeeds \in {<<>>, <<"feed">>}
  /\ inactivityThreshold \in InactivityThresholds
  /\ minTimeBetweenPosts \in MinTimesBetweenPosts
  /\ AutoPostOff
  /\ InitFile
  /\ InitManager
  /\ NotStarted

StartupNext ==
  \/ ValidateTwitchConfig
  \/ RefreshAtStartup
  \/ \E t \in refreshTasks, ok \in BOOLEAN : RefreshLoaded(t, ok)
  \/ \E t \in refreshTasks, answer \in RefreshAnswers : RefreshAnswered(t, answer)
  \/ \E t \in refreshTasks, ok \in BOOLEAN : RefreshSaved(t, ok)
  \/ RegisterRefreshTimer
  \/ StartClient
  \/ \E status \in {200, 401} : StartValidated(status)
  \/ \E s \in 1..Len(socks) : SocketOpen(s)

SpecStartup == InitStartup /\ [][StartupNext]_vars

\* --------------------------------------------------------------- the stop
\* The refresh state once index.ts ran its refresh at startup and registered the
\* interval.
InitRefreshed ==
  /\ file = [readable |-> TRUE, hasSecrets |-> TRUE, TWITCH_CLIENT_ID |-> "cid",
             TWITCH_CLIENT_SECRET |-> "secret", TWITCH_REFRESH_TOKEN |-> 1,
             TWITCH_OAUTH_TOKEN |-> 1]
  /\ provider = [issued |-> 1, accepts |-> 1]
  /\ refreshTimer = TRUE
  /\ refreshTasks = {}
  /\ nRefresh = 1
  /\ refreshLog = "Failed to refresh token"
  /\ refreshThrew = FALSE
  /\ tokenCalls = <<>>

\* The running system: the session subscribed, both intervals registered.
InitStop ==
  /\ InitConfig
  /\ settings.TWITCH_CHANNEL_USER_ID = "200"
  /\ autoPostEnabled
  /\ rssFeeds = <<"feed">>
  /\ inactivityThreshold = 1
  /\ minTimeBetweenPosts = 1
  /\ InitRefreshed
  /\ InitManager
  /\ Subscribed

\* stop() called by the owner at any moment, and both intervals with the first
\* step of the work they start; the answers of the feed and of the token
\* endpoint, and the socket's close event, stay pending.
StopNext ==
  \/ Stop
  \/ AutoPostTimer
  \/ \E t \in tickTasks, item \in BOOLEAN : TickFeed(t, item)
  \/ nRefresh < MaxRefresh /\ RefreshTimerFires
  \/ \E t \in refreshTasks, ok \in BOOLEAN : RefreshLoaded(t, ok)
  \/ now < Epoch + MaxTime /\ Advance

SpecStop == InitStop /\ [][StopNext]_vars

\* -------------------------------------------------------- the credentials
\* The running system with its refresh interval, a welcome frame of a new
\* session and chat messages of a viewer: the refresh writes the file while the
\* subscribe and send paths read the settings.
InitCredentials ==
  /\ InitConfig
  /\ settings.TWITCH_CHANNEL_USER_ID = "200"
  /\ AutoPostOff
  /\ InitRefreshed
  /\ InitManager
  /\ Subscribed

CredentialsNext ==
  \/ nRefresh < MaxRefresh /\ RefreshTimerFires
  \/ \E t \in refreshTasks : RefreshLoaded(t, TRUE)
  \/ \E t \in refreshTasks, answer \in RefreshAnswers : RefreshAnswered(t, answer)
  \/ \E t \in refreshTasks, ok \in BOOLEAN : RefreshSaved(t, ok)
  \/ \E sid \in SessionIds : nFrames < MaxAutoFrames /\ OnMessage(1, Welcome(sid))
  \/ \E e \in ChatEvents :
       /\ nFrames < MaxAutoFrames
       /\ e.broadcaster_user_id = settings.TWITCH_CHANNEL_USER_ID
       /\ e.chatter_user_id # BotId
       /\ OnMessage(1, ChatNotification(e))
  \/ \E t \in chatTasks : ChatEnsured(t, TRUE)
  \/ \E t \in chatTasks, out \in ReplyTexts : ChatGenerated(t, out)
  \/ \E t \in chatTasks, outcome \in SendOutcomes : ChatSent(t, outcome)
  \/ \E t \in chatTasks : ChatPersisted(t, TRUE)

SpecCredentials == InitCredentials /\ [][CredentialsNext]_vars

\* ------------------------------------------------------------ all together
Next == StartupNext \/ StopNext \/ CredentialsNext \/ SessionNext \/ ChatNext \/ AutoPostNext \/ RefreshNext

Spec == Init /\ [][Next]_vars

\* ================================================================= claims

\* ---- C1 --------------------------------------------------------------------
Successor ==
  [Disconnected |-> {"Connecting"}, Connecting |-> {"AwaitingWelcome"},
   AwaitingWelcome |-> {"Subscribed"}, Subscribed |-> {}, NotifyingError |-> {}]

InOrder ==
  \/ SessionState' = SessionState
  \/ SessionState' \in {"Disconnected", "NotifyingError"}
  \/ SessionState' \in Successor[SessionState]

NotificationBeforeWelcomeIgnored ==
  \A s \in 1..Len(socks), raw \in RawFrames :
    (raw.message_type = "notification" /\ ~socks[s].welcomed /\ OnMessage(s, raw))
      => UNCHANGED <<lastActivity, interestChats, chatTasks, returned, sends>>

\* C1: the session state moves Disconnected, Connecting, AwaitingWelcome,
\* Subscribed only in that order (a close, an error or a stop apart), and a
\* notification frame that arrives on a socket before its welcome frame calls no
\* handleIncomingMessage, updates no activity and sends nothing.
C1_OrderedAndNotificationGated ==
  [][InOrder /\ NotificationBeforeWelcomeIgnored]_vars

\* The order alone, which the code keeps.
C1_Ordered == [][InOrder]_vars

\* ---- C2 --------------------------------------------------------------------
\* C2: a frame that JSON.parse rejects, on any socket in any session state,
\* raises nothing, leaves the socket handle, the session identifier and the
\* activity records as they are, and issues no subscribe and no send call.
C2_MalformedFrameDropped ==
  [][\A s \in 1..Len(socks), raw \in RawFrames :
       (~JSONParse(raw).ok /\ OnMessage(s, raw))
         => UNCHANGED <<uncaught, ws, socks, sessionId, startPc, subs,
                        lastActivity, interestChats, chatTasks, returned,
                        generated, sends>>]_vars

\* A malformed frame was the last one handled, on a session whose welcome frame
\* arrived and whose subscribe call is still to be answered.
C2_Witness ==
  /\ lastFrame = Garbage
  /\ SessionState = "Subscribed"
  /\ sessionId # 0
  /\ \E i \in 1..Len(subs) : subs[i].status = "pending"

\* ---- C3 --------------------------------------------------------------------
RepliesTo(message_id) ==
  {i \in 1..Len(sends) : sends[i].kind = "reply" /\ sends[i].message_id = message_id}

\* C3: no chat message gets more than one reply send, also when its
\* notification frame is delivered more than once.
C3_AtMostOneReply ==
  \A e \in ChatEvents : Cardinality(RepliesTo(e.message_id)) <= 1

\* ---- C4 --------------------------------------------------------------------
\* C4: handling a message whose sender is the bot returns null at once: nothing
\* is sent, and the last-activity timestamps, the message windows and the last
\* responses stay as they are.
C4_OwnMessageIgnored ==
  [][\A e \in ChatEvents :
       (e.chatter_user_id = settings.TWITCH_BOT_USER_ID
          /\ OnMessage(1, ChatNotification(e)))
         => /\ returned' = [returned EXCEPT !["null"] = @ + 1]
            /\ UNCHANGED <<lastActivity, interestChats, chatTasks, generated,
                           sends>>]_vars

\* The bot's own message was the last frame handled, in a channel whose last
\* activity is older than the clock.
C4_Witness ==
  /\ lastFrame \in {ChatNotification(e) : e \in ChatEvents}
  /\ lastFrame.event.chatter_user_id = settings.TWITCH_BOT_USER_ID
  /\ lastFrame.event.broadcaster_user_id \in DOMAIN lastActivity
  /\ lastActivity[lastFrame.event.broadcaster_user_id] < now

\* ---- C5 --------------------------------------------------------------------
ThresholdsPassed ==
  /\ now - LastActivityOf(settings.TWITCH_CHANNEL_USER_ID) > inactivityThreshold
  /\ now - lastAutoPostTime > minTimeBetweenPosts

IsAutoPostOf(request, t, text) ==
  request.kind = "autopost" /\ request.tick = t.now /\ request.message = text

\* C5: with auto-post enabled and feeds configured, a tick goes on to post if
\* and only if idleFor > inactivityThreshold and sinceLastPost >
\* minTimeBetweenPosts, both strictly; and a tick that went on sends its post
\* once the aggregator gave an item and the generator a text.
C5_PostIffBothThresholdsPassed ==
  [][/\ (AutoPostConfigured /\ AutoPostTimer)
          => ((tickTasks' # tickTasks) <=> ThresholdsPassed)
     /\ \A t \in tickTasks :
          TickFeed(t, TRUE) => [t EXCEPT !.pc = "generate"] \in tickTasks'
     /\ \A t \in tickTasks, text \in PostTexts :
          TickGenerated(t, text)
            => /\ Len(sends') = Len(sends) + 1
               /\ IsAutoPostOf(sends'[Len(sends')], t, text)]_vars

\* The last tick found the channel idle for longer than the threshold and the
\* last post exactly minTimeBetweenPosts old, and went no further.
C5_Witness ==
  /\ AutoPostConfigured
  /\ lastTick.at = now
  /\ lastTick.timeSinceLastActivity > inactivityThreshold
  /\ lastTick.timeSinceLastAutoPost = minTimeBetweenPosts
  /\ \A t \in tickTasks : t.now # now
  /\ \A i \in 1..Len(sends) : sends[i].tick # now

\* ---- C6 --------------------------------------------------------------------
AutoPosts == {i \in 1..Len(sends) : sends[i].kind = "autopost"}

\* C6: any two auto-posts sent are more than minTimeBetweenPosts apart, and at
\* most one run of checkAutoPost is in flight at a time.
C6_SpacedAndSingleFlight ==
  /\ \A i, j \in AutoPosts :
       i < j => sends[j].at - sends[i].at > minTimeBetweenPosts
  /\ Cardinality(tickTasks) <= 1

\* ---- C7 --------------------------------------------------------------------
RECURSIVE Dedup(_)
\* seq with every run of equal neighbours cut to one element.
Dedup(seq) ==
  IF Len(seq) <= 1 THEN seq
  ELSE IF seq[1] = seq[2] THEN Dedup(Tail(seq))
  ELSE <<seq[1]>> \o Dedup(Tail(seq))

\* The texts of the replies sent for chat state c, in the order sent.
RepliesSentIn(c) ==
  LET IsReplyIn(request) == request.kind = "reply" /\ request.chat = c
      replies == SelectSeq(sends, IsReplyIn)
  IN [i \in 1..Len(replies) |-> replies[i].message]

\* C7: per channel, the replies sent are the generated texts with every run of
\* identical consecutive generations cut to one: two consecutive identical
\* generations give exactly one send, however the two invocations interleave.
C7_OneSendPerRepeatedText ==
  \A c \in Channels : RepliesSentIn(c) = Dedup(generated[c])

\* Two invocations for one channel generated the same text, the second while the
\* first was still waiting for its send to be answered; one reply was sent.
C7_Witness ==
  \E c \in Channels :
    /\ generated[c] = <<"a", "a">>
    /\ \E t \in chatTasks : t.channel = c /\ t.pc = "sending"
    /\ Len(RepliesSentIn(c)) = 1

\* ---- C8 --------------------------------------------------------------------
\* C8: a tick whose send failed, by a non-success response or by a throw, leaves
\* lastAutoPostTime as it was.
C8_FailedSendKeepsLastAutoPostTime ==
  [][\A t \in tickTasks :
       (\/ \E outcome \in SendOutcomes \ {"ok"} : TickSent(t, outcome)
        \/ t.res = "rejected" /\ \E ok \in BOOLEAN : TickPersisted(t, ok))
         => UNCHANGED lastAutoPostTime]_vars

\* ---- C9 --------------------------------------------------------------------
\* C9: a tick whose send succeeded sets lastAutoPostTime to the clock it read,
\* whatever createMemory, updateRecentMessageState and evaluate do afterwards.
C9_SentPostSetsLastAutoPostTime ==
  [][\A t \in tickTasks :
       (t.res = "ok" /\ \E ok \in BOOLEAN : TickPersisted(t, ok))
         => lastAutoPostTime' = t.now]_vars

\* ---- C10 -------------------------------------------------------------------
FieldMissing(secrets) ==
  \/ secrets.TWITCH_CLIENT_ID = Missing
  \/ secrets.TWITCH_CLIENT_SECRET = Missing
  \/ secrets.TWITCH_REFRESH_TOKEN = 0

\* C10: a refresh that reads a file without client id, client secret or refresh
\* token returns at once: no request goes to the token endpoint and the file
\* stays as it is.
C10_MissingFieldSkipsRefresh ==
  [][\A t \in refreshTasks :
       (file.hasSecrets /\ FieldMissing(file) /\ RefreshLoaded(t, TRUE))
         => /\ tokenCalls' = tokenCalls
            /\ file' = file
            /\ refreshTasks' = refreshTasks \ {t}]_vars

\* A refresh found only the client secret missing and returned; no request was
\* ever sent.
C10_Witness ==
  /\ refreshLog = "Missing clientId/clientSecret/refreshToken"
  /\ file.TWITCH_CLIENT_SECRET = Missing
  /\ file.TWITCH_CLIENT_ID # Missing
  /\ file.TWITCH_REFRESH_TOKEN # 0
  /\ refreshTasks = {}
  /\ tokenCalls = <<>>

\* ---- C11 -------------------------------------------------------------------
\* C11: maybeRefreshToken never rejects: an unreadable file, a network error, a
\* non-2xx answer, an answer without the tokens and a failed write all end the
\* invocation by a return; a failure before the write leaves the file as it was.
C11_RefreshNeverRaises ==
  [][/\ ~refreshThrew'
     /\ \A t \in refreshTasks :
          (\/ RefreshLoaded(t, FALSE)
           \/ \E answer \in RefreshAnswers \ {"tokens"} : RefreshAnswered(t, answer))
            => file' = file /\ refreshTasks' = refreshTasks \ {t}
     /\ \A t \in refreshTasks :
          RefreshSaved(t, FALSE) => refreshTasks' = refreshTasks \ {t}]_vars

\* The endpoint issued a new pair, writing the file failed, and the invocation
\* returned after its catch block logged.
C11_Witness ==
  /\ provider.issued = 2
  /\ file.TWITCH_OAUTH_TOKEN = 1
  /\ refreshLog = "maybeRefreshToken error"
  /\ refreshTasks = {}
  /\ ~refreshThrew

\* ---- C12 -------------------------------------------------------------------
\* C12: every change of the persisted credentials replaces the bearer token and
\* the refresh token together, by the pair one response issued.
C12_TokensReplacedTogether ==
  [][file' # file
       => /\ file'.TWITCH_OAUTH_TOKEN # file.TWITCH_OAUTH_TOKEN
          /\ file'.TWITCH_REFRESH_TOKEN # file.TWITCH_REFRESH_TOKEN
          /\ file'.TWITCH_OAUTH_TOKEN = file'.TWITCH_REFRESH_TOKEN]_vars

\* A refresh wrote a new pair while another invocation, which had read the file
\* before, was still in flight.
C12_Witness ==
  /\ file.TWITCH_OAUTH_TOKEN = 2
  /\ file.TWITCH_REFRESH_TOKEN = 2
  /\ \E t \in refreshTasks : t.pc = "fetch" /\ t.config.TWITCH_OAUTH_TOKEN = 1

\* ---- C13 -------------------------------------------------------------------
\* C13: every chat request names the channel as broadcaster_id, and carries
\* moderator_id, set to the bot's id, exactly when the bot's id differs from the
\* channel's id.
C13_ModeratorIffNotBroadcaster ==
  \A i \in 1..Len(sends) :
    /\ sends[i].broadcaster_id = settings.TWITCH_CHANNEL_USER_ID
    /\ IF settings.TWITCH_BOT_USER_ID # settings.TWITCH_CHANNEL_USER_ID
       THEN sends[i].moderator_id = settings.TWITCH_BOT_USER_ID
       ELSE sends[i].moderator_id = Missing

\* The bot replied in its own channel, and the request carries no moderator_id.
C13_Witness ==
  /\ settings.TWITCH_BOT_USER_ID = settings.TWITCH_CHANNEL_USER_ID
  /\ \E i \in 1..Len(sends) :
       sends[i].kind = "reply" /\ sends[i].moderator_id = Missing

\* ---- C14 -------------------------------------------------------------------
\* C14: a non-success answer to the chat request does not make sendChatMessage
\* throw: its caller goes on to the statements after the send.
C14_RejectionDoesNotRaise ==
  [][\A t \in tickTasks :
       TickSent(t, "rejected")
         => [t EXCEPT !.pc = "persist", !.res = "rejected"] \in tickTasks']_vars

\* An auto-post was rejected and checkAutoPost went on after the send.
C14_Witness ==
  \E t \in tickTasks : t.pc = "persist" /\ t.res = "rejected"

\* ---- C15 -------------------------------------------------------------------
\* C15: a close event and an error event on the session's socket each release
\* the socket handle: the session is Disconnected afterwards.
C15_CloseAndErrorDisconnect ==
  [][(ws # 0 /\ (SocketClose(ws) \/ SocketError(ws)))
       => (ws' = 0 /\ SessionState' = "Disconnected")]_vars

\* ---- C16 -------------------------------------------------------------------
\* C16: whenever the session is Disconnected the session identifier is null, and
\* the identifier is set only by a welcome frame.
C16_SessionIdClearedOnDisconnect ==
  [][/\ SessionState' = "Disconnected" => sessionId' = 0
     /\ (sessionId' # sessionId /\ sessionId' # 0)
          => \E s \in 1..Len(socks), sid \in SessionIds : OnMessage(s, Welcome(sid))]_vars

\* ---- C17 -------------------------------------------------------------------
\* C17: a socket is created, and the session leaves Disconnected, only in a
\* start() call whose token validation answered 200; no socket listener and no
\* timer opens a connection.
C17_NoReconnectWithoutStart ==
  [][(\/ Len(socks') > Len(socks)
      \/ ws = 0 /\ ws' # 0
      \/ SessionState = "Disconnected" /\ SessionState' # "Disconnected")
       => (startPc = "validating" /\ StartValidated(200))]_vars

\* A session that was connected, lost its socket, and stays Disconnected with
\* no start() call in progress.
C17_Witness ==
  /\ ws = 0
  /\ startPc = "returned"
  /\ Len(socks) = 1
  /\ socks[1].state = "closed"
  /\ socks[1].welcomed

\* ---- C18 -------------------------------------------------------------------
\* C18: a start() call whose token validation answers anything but 200 raises
\* and creates no socket, so the session stays Disconnected; a socket is created
\* only after the validation answered 200.
C18_NoSocketWithoutValidToken ==
  [][/\ \A status \in {401} :
          StartValidated(status)
            => /\ startPc' = "raised"
               /\ UNCHANGED <<ws, socks>>
               /\ SessionState' = "Disconnected"
     /\ socks' # socks /\ Len(socks') > Len(socks)
          => \E status \in {200} : StartValidated(status)]_vars

\* The first start() call raised at the validation; no socket exists.
C18_Witness ==
  /\ startPc = "raised"
  /\ ws = 0
  /\ socks = <<>>

\* ---- C19 -------------------------------------------------------------------
RequiredSettingMissing ==
  \/ settings.TWITCH_BOT_USER_ID = Missing
  \/ settings.TWITCH_BOT_USERNAME = Missing
  \/ settings.TWITCH_OAUTH_TOKEN = 0
  \/ settings.TWITCH_CLIENT_ID = Missing
  \/ settings.TWITCH_CHANNEL_USER_ID = Missing

\* C19: with any of the five required settings missing, validateTwitchConfig
\* throws, and startup makes no refresh call, registers no interval and creates
\* no socket.
C19_MissingSettingAbortsStartup ==
  [][RequiredSettingMissing
       => /\ ValidateTwitchConfig => configResult' = "invalid"
          /\ configResult' # "valid"
          /\ UNCHANGED <<nRefresh, refreshTasks, tokenCalls, refreshTimer,
                         startPc, ws, socks, subs, sends>>]_vars

\* Only the bot's user name is missing: validateTwitchConfig threw and nothing
\* else of the startup ran.
C19_Witness ==
  /\ settings.TWITCH_BOT_USERNAME = Missing
  /\ settings.TWITCH_BOT_USER_ID # Missing
  /\ settings.TWITCH_OAUTH_TOKEN # 0
  /\ settings.TWITCH_CLIENT_ID # Missing
  /\ settings.TWITCH_CHANNEL_USER_ID # Missing
  /\ configResult = "invalid"
  /\ nRefresh = 0
  /\ ~refreshTimer
  /\ socks = <<>>

\* ---- C20 -------------------------------------------------------------------
\* C20: a welcome frame that carries session identifier sid adds exactly one
\* subscribe call, for sid, to the calls made so far, and nothing else adds a
\* call: no answer to a subscribe call, rejected or not, makes another one. So
\* the calls are as many as those welcome frames.
C20_OneSubscribePerWelcome ==
  [][/\ \A s \in 1..Len(socks), sid \in SessionIds :
          OnMessage(s, Welcome(sid))
            => /\ Len(subs') = Len(subs) + 1
               /\ \A i \in 1..Len(subs) : subs'[i] = subs[i]
               /\ subs'[Len(subs')].session_id = sid
               /\ subs'[Len(subs')].status = "pending"
     /\ Len(subs') # Len(subs)
          => \E s \in 1..Len(socks), sid \in SessionIds : OnMessage(s, Welcome(sid))]_vars

\* Two welcome frames with different identifiers arrived; the subscribe call of
\* the first was rejected and not repeated, the second has its own call.
C20_Witness ==
  /\ Len(subs) = 2
  /\ subs[1].status = "failed"
  /\ subs[1].session_id # subs[2].session_id
  /\ sessionId = subs[2].session_id

\* ---- C21 -------------------------------------------------------------------
\* C21: a subscribe call counts as successful exactly when the answer has
\* status 202 and its body carries a subscription id; every other answer is a
\* rejection.
C21_SubscribedIffAcceptedWithId ==
  [][\A i \in 1..Len(subs), status \in {202, 400}, hasId \in BOOLEAN :
       SubscribeResponse(i, status, hasId)
         => (subs'[i].status = "subscribed" <=> (status = 202 /\ hasId))]_vars

\* ---- C22 -------------------------------------------------------------------
\* C22: stop() leaves the client without a socket handle and raises nothing, and
\* stop() on a client without a socket handle changes nothing: a second call,
\* or a call on a Disconnected session, adds nothing to the first.
C22_StopIdempotent ==
  [][Stop => /\ ws' = 0
             /\ UNCHANGED uncaught
             /\ ws = 0 => UNCHANGED vars]_vars

\* stop() closed the socket of a subscribed session, whose close event is still
\* to come; a further stop() finds no handle.
C22_Witness ==
  /\ ws = 0
  /\ Len(socks) = 1
  /\ socks[1].state = "closing"
  /\ socks[1].welcomed

\* ---- C23 -------------------------------------------------------------------
\* stop() returned: the client holds no handle and the socket it closed has had
\* no close event yet.
StopReturned == ws = 0 /\ socks[1].state = "closing"

\* C23: once stop() returned, neither interval fires again: no further call of
\* maybeRefreshToken and no further run of checkAutoPost is started.
C23_StopCancelsTimers ==
  [][StopReturned => (~RefreshTimerFires /\ ~AutoPostTimer)]_vars

\* ---- C24 -------------------------------------------------------------------
\* C24: every chat request and every subscribe call is authorised with the
\* bearer token the character file holds at that moment, so after a refresh
\* wrote a new pair the next call carries the new token.
C24_CallsUsePersistedToken ==
  [][/\ Len(sends') > Len(sends)
          => sends'[Len(sends')].token = file.TWITCH_OAUTH_TOKEN
     /\ Len(subs') > Len(subs)
          => subs'[Len(subs')].token = file.TWITCH_OAUTH_TOKEN]_vars

\* ---- C25 -------------------------------------------------------------------
\* C25: whenever checkAutoPost sends its post, the channel's last activity is
\* more than inactivityThreshold old at that moment.
C25_PostOnlyWhileIdle ==
  [][\A t \in tickTasks, text \in PostTexts :
       TickGenerated(t, text)
         => now - LastActivityOf(settings.TWITCH_CHANNEL_USER_ID)
              > inactivityThreshold]_vars

\* ---- C26 -------------------------------------------------------------------
\* The sockets as a call of stop() in this state leaves them.
SocksAfterStop ==
  IF ws # 0
  THEN [socks EXCEPT ![ws].state = IF @ = "closed" THEN "closed" ELSE "closing"]
  ELSE socks

\* C26: in every state the system reaches, by whatever interleaving of start(),
\* close events and stop(), a call of stop() returns with no socket of the
\* client connecting or open.
C26_NoOpenSocketAfterStop ==
  \A s \in 1..Len(socks) : SocksAfterStop[s].state \notin {"connecting", "open"}

\* ---- C27 -------------------------------------------------------------------
\* C27: whatever frame arrives, parseable or not, well-formed or not, no
\* exception escapes handleWebSocketMessage.
C27_NoFrameRaises ==
  [][\A s \in 1..Len(socks), raw \in RawFrames :
       OnMessage(s, raw) => ~uncaught']_vars

\* C28: with auto-post enabled, a feed configured and no chat activity, once
\* the aggregator, the generator and the send succeed, a post goes out and is
\* accepted: the ticks that failed before are retried by the interval alone.
Posted == \E t \in tickTasks : t.pc = "persist" /\ t.res = "ok"

C28_EventuallyPosted ==
  (AutoPostConfigured /\ lastActivity = EmptyMap) => <>Posted

\* The first tick failed and a later tick posted.
C28_Witness ==
  /\ lastActivity = EmptyMap
  /\ \E t \in tickTasks :
       /\ t.pc = "persist"
       /\ t.res = "ok"
       /\ t.now > Epoch + TickInterval
       /\ \A i \in 1..Len(sends) : sends[i].tick = t.now

\* C29: a tick with auto-post disabled or with no source configured asks for no
\* content, generates and sends nothing, and leaves lastAutoPostTime and the
\* activity records as they were.
C29_TickNoOpWhenUnconfigured ==
  [][(AutoPostTimer /\ (~autoPostEnabled \/ Len(rssFeeds) = 0))
       => UNCHANGED <<tickTasks, sends, lastAutoPostTime, chatVars>>]_vars

C29_Witness ==
  /\ autoPostEnabled
  /\ Len(rssFeeds) = 0
  /\ lastTick.at = Epoch + TickInterval
  /\ lastTick.timeSinceLastActivity > inactivityThreshold
  /\ lastTick.timeSinceLastAutoPost > minTimeBetweenPosts
  /\ tickTasks = {}
  /\ sends = <<>>
  /\ lastAutoPostTime = 0

\* C30: when the aggregator returns no item, or the generator returns no text,
\* the tick ends: nothing is sent and lastAutoPostTime is unchanged.
C30_NoItemOrNoTextEndsTick ==
  [][\A t \in tickTasks :
       (TickFeed(t, FALSE) \/ TickGenerated(t, NoText))
         => /\ tickTasks' = tickTasks \ {t}
            /\ UNCHANGED <<sends, lastAutoPostTime>>]_vars

C30_Witness ==
  /\ AutoPostConfigured
  /\ lastTick.at = Epoch + TickInterval
  /\ lastTick.timeSinceLastActivity > inactivityThreshold
  /\ lastTick.timeSinceLastAutoPost > minTimeBetweenPosts
  /\ now = lastTick.at
  /\ tickTasks = {}
  /\ sends = <<>>
  /\ lastAutoPostTime = 0

\* C31: a keepalive frame and a frame of a kind the switch does not know leave
\* the session state, the session id and the activity records as they were, and
\* start no subscribe and no send call.
QuietFrames == {Keepalive, Revocation}

C31_KeepaliveAndUnknownIgnored ==
  [][\A s \in 1..Len(socks), raw \in QuietFrames :
       OnMessage(s, raw)
         => /\ SessionState' = SessionState
            /\ UNCHANGED <<ws, socks, sessionId, startPc, uncaught, subs, sends,
                            lastActivity, interestChats, chatTasks>>]_vars

C31_Witness ==
  /\ lastFrame \in QuietFrames
  /\ nFrames = 2
  /\ SessionState = "Subscribed"
  /\ sessionId # 0
  /\ Len(subs) = 1

FirstTick == Epoch + TickInterval

C33_FirstTickPosts ==
  /\ lastActivity = EmptyMap
  /\ lastAutoPostTime = 0
  /\ [][/\ (/\ AutoPostTimer
             /\ now = FirstTick
             /\ autoPostEnabled /\ Len(rssFeeds) > 0
             /\ settings.TWITCH_CHANNEL_USER_ID \notin DOMAIN lastActivity)
            => /\ lastTick'.timeSinceLastActivity = now
               /\ lastTick'.timeSinceLastAutoPost = now
               /\ [now |-> now, pc |-> "feed", res |-> "none"] \in tickTasks'
        /\ \A t \in tickTasks, text \in PostTexts :
             (t.now = FirstTick /\ TickGenerated(t, text))
               => /\ Len(sends') = Len(sends) + 1
                  /\ sends'[Len(sends')].kind = "autopost"
                  /\ sends'[Len(sends')].tick = FirstTick
                  /\ sends'[Len(sends')].message = text]_vars

\* The first tick's post went out within the first interval, on a channel that
\* never saw a message.
C33_Witness ==
  /\ lastActivity = EmptyMap
  /\ Len(sends) = 1
  /\ sends[1].kind = "autopost"
  /\ sends[1].tick = FirstTick
  /\ sends[1].at = FirstTick
  /\ lastTick.timeSinceLastActivity = FirstTick
  /\ lastTick.timeSinceLastAutoPost = FirstTick
====
